---- MODULE Spec2Model ----
(***************************************************************************)
(* Model of src/main.rs of miniscript-psbt: a one-shot pipeline that parses *)
(* a descriptor and two private keys, locates the funding output in a raw   *)
(* transaction (get_vout), assembles a one-input one-output spend inside a   *)
(* PSBT, computes the sighash of input 0, signs it with both keys, records   *)
(* the two partial signatures, prints the PSBT, finalizes it and prints the  *)
(* extracted transaction.  Every unwrap/expect/assert/panic of main is a     *)
(* terminal "panic" state.                                                   *)
(*                                                                           *)
(* Abstractions: hashes (txid, sighash, script hash) are injective records   *)
(* of what they hash; an ECDSA signature is the pair (digest, signer point); *)
(* descriptors are the family wsh(multi(k, keys)).  u64 values are kept at   *)
(* full width as four 16-bit limbs.                                          *)
(***************************************************************************)
EXTENDS Integers, Sequences, FiniteSets, TLC

\* ---------------------------------------------------------------- bounds
MaxOutputs == 2      \* outputs of the funding transaction
MaxSk == 3           \* private keys are 1..MaxSk
MaxMulti == 2        \* keys of a multi(k, ...) descriptor

\* ------------------------------------------------------ program constants
Fee == 500           \* main.rs:103  args.amount - 500
U64Limbs == 4        \* main.rs:28   amount: u64, as 4 limbs ...
LimbBase == 65536    \* main.rs:28   ... of 16 bits each

\* ------------------------------------------------------------ u64 values
\* A u64 is <<l1, l2, l3, l4>>, least significant limb first.
\* ToU64(n) is the u64 of a natural n < LimbBase^2.
ToU64(n) == <<n % LimbBase, (n \div LimbBase) % LimbBase, 0, 0>>

\* TRUE iff the value is below LimbBase^2, so that U64Val reads it.
U64Fits(a) == \A i \in 3..U64Limbs : a[i] = 0

U64Val(a) == a[1] + a[2] * LimbBase

RECURSIVE SubLimbs(_, _, _, _)
SubLimbs(a, b, i, borrow) ==
    IF i > U64Limbs
    THEN [limbs |-> <<>>, borrow |-> borrow]
    ELSE LET d == a[i] - b[i] - borrow
             r == SubLimbs(a, b, i + 1, IF d < 0 THEN 1 ELSE 0)
         IN  [limbs |-> <<IF d < 0 THEN d + LimbBase ELSE d>> \o r.limbs,
              borrow |-> r.borrow]

\* What the build's `-` on u64 can produce (main.rs:103): with overflow checks
\* (debug profile) an overflow panics, without them (release profile) it wraps.
U64SubOutcomes(a, b) ==
    LET r == SubLimbs(a, b, 1, 0)
    IN  IF r.borrow = 0
        THEN {[panic |-> FALSE, value |-> r.limbs]}
        ELSE {[panic |-> TRUE, value |-> r.limbs],
              [panic |-> FALSE, value |-> r.limbs]}

\* ------------------------------------------------------------------ keys
PrivateKeys == 1..MaxSk

\* secp256k1 point of a secret scalar (injective).
PointOf(sk) == sk + sk

\* PrivateKey::public_key (main.rs:131, 135): bitcoin::PublicKey {compressed, inner}
public_key(sk) == [compressed |-> TRUE, inner |-> PointOf(sk)]

PublicKeys == {public_key(sk) : sk \in PrivateKeys}

\* ----------------------------------------------------------- descriptors
\* Descriptor text: either malformed, or wsh(multi(k, keys...)).
SeqsUpTo(S, n) == UNION {[1..m -> S] : m \in 0..n}

Range(s) == {s[i] : i \in DOMAIN s}

DescriptorTexts ==
    {[wellformed |-> FALSE, k |-> 0, keys |-> <<>>]} \cup
    {[wellformed |-> TRUE, k |-> k, keys |-> ks] :
        k \in 1..MaxMulti, ks \in SeqsUpTo(PublicKeys, MaxMulti) \ {<<>>}}

\* Descriptor::from_str (main.rs:42): Err on malformed text and on a
\* threshold outside 1..n.
from_str_ok(text) == text.wellformed /\ text.k <= Len(text.keys)

\* Descriptor::sanity_check (main.rs:43): repeated keys are rejected.
sanity_check_ok(d) == Cardinality(Range(d.keys)) = Len(d.keys)

\* The witness script of wsh(multi(k, keys)) and its script_pubkey
\* (main.rs:46, 93): OP_0 <sha256(witness_script)>.
witness_script_of(d) == [op |-> "multi", k |-> d.k, keys |-> d.keys]
P2wsh(ws) == [op |-> "p2wsh", hash_of |-> ws]
script_pubkey(d) == P2wsh(witness_script_of(d))

\* ------------------------------------------------------- funding inputs
Key1 == public_key(1)
Key2 == public_key(2)
FundingScripts ==
    {script_pubkey([wellformed |-> TRUE, k |-> 2, keys |-> <<Key1, Key2>>]),
     script_pubkey([wellformed |-> TRUE, k |-> 1, keys |-> <<Key1, Key2>>])}
FundingValues == {ToU64(1000), ToU64(100000)}
TxOuts == [script_pubkey : FundingScripts, value : FundingValues]
FundingTxs ==
    {[version |-> 2, lock_time |-> 0, input |-> <<>>, output |-> outs] :
        outs \in SeqsUpTo(TxOuts, MaxOutputs)}

\* Transaction::txid (main.rs:168): hash of the transaction.
txid(tx) == [hash_of |-> tx]

Amounts == {ToU64(0), ToU64(499), ToU64(500), ToU64(501), ToU64(99500)}

\* Receiver address texts: malformed, or an address with its script.
ReceiverScript == [op |-> "p2wpkh", hash_of |-> public_key(MaxSk)]
AddressTexts == {[wellformed |-> FALSE], [wellformed |-> TRUE]}

\* -------------------------------------------------------------- get_vout
\* main.rs:165-172: scan the outputs in index order, return the first whose
\* script equals spk; panic when the loop ends.
\* Mutant: the scan keeps going after a match, so the last match wins.
RECURSIVE get_vout_from_last(_, _, _)
get_vout_from_last(tx, spk, i) ==
    IF i > Len(tx.output)
    THEN [found |-> FALSE, outpoint |-> <<>>, txout |-> <<>>]
    ELSE LET rest == get_vout_from_last(tx, spk, i + 1)
         IN  IF rest.found
             THEN rest
             ELSE IF spk = tx.output[i].script_pubkey
                  THEN [found |-> TRUE,
                        outpoint |-> <<[txid |-> txid(tx), vout |-> i - 1]>>,
                        txout |-> <<tx.output[i]>>]
                  ELSE rest

\* Mutant: a default outpoint is returned, instead of the panic, when the
\* scan finds nothing.
RECURSIVE get_vout_from_default(_, _, _)
get_vout_from_default(tx, spk, i) ==
    IF i > Len(tx.output)
    THEN [found |-> TRUE,
          outpoint |-> <<[txid |-> txid(tx), vout |-> 0]>>,
          txout |-> <<[script_pubkey |-> spk, value |-> ToU64(0)]>>]
    ELSE IF spk = tx.output[i].script_pubkey
         THEN [found |-> TRUE,
               outpoint |-> <<[txid |-> txid(tx), vout |-> i - 1]>>,
               txout |-> <<tx.output[i]>>]
         ELSE get_vout_from_default(tx, spk, i + 1)

RECURSIVE get_vout_from(_, _, _)
get_vout_from(tx, spk, i) ==
    IF i > Len(tx.output)
    THEN [found |-> FALSE, outpoint |-> <<>>, txout |-> <<>>]
    ELSE IF spk = tx.output[i].script_pubkey
         THEN [found |-> TRUE,
               outpoint |-> <<[txid |-> txid(tx), vout |-> i - 1]>>,
               txout |-> <<tx.output[i]>>]
         ELSE get_vout_from(tx, spk, i + 1)

get_vout(tx, spk) == get_vout_from(tx, spk, 1)


\* ---------------------------------------------------------------- sighash
\* Sequence::MAX (main.rs:98) = 0xFFFFFFFF, a u32 as two 16-bit limbs.
SequenceMAX == <<LimbBase - 1, LimbBase - 1>>

\* psbt::Input::ecdsa_hash_ty as used by sighash_msg (main.rs:119): the
\* input's declared sighash type, EcdsaSighashType::All when it declares none.
ecdsa_hash_ty(inp) ==
    IF inp.sighash_type = <<>> THEN "All" ELSE inp.sighash_type[1]

\* PsbtExt::sighash_msg(idx, cache, None) (main.rs:118-121).  The cache was
\* built over p.unsigned_tx (main.rs:116).  The digest variant follows from
\* the spent script's structure; the script code of a p2wsh spend is the
\* witness script.  Err when the input or its utxo is missing.
sighash_msg(p, idx) ==
    IF idx + 1 > Len(p.inputs) \/ idx + 1 > Len(p.unsigned_tx.input)
    THEN <<>>
    ELSE LET inp == p.inputs[idx + 1]
         IN  IF inp.witness_utxo = <<>> \/ inp.witness_script = <<>>
             THEN <<>>
             ELSE <<[tx |-> p.unsigned_tx,
                     index |-> idx,
                     script_code |-> inp.witness_script[1],
                     value |-> inp.witness_utxo[1].value,
                     sighash_type |-> ecdsa_hash_ty(inp),
                     variant |-> IF inp.witness_utxo[1].script_pubkey.op = "p2wsh"
                                 THEN "segwit_v0" ELSE "legacy"]>>

\* Mutant: the flag stored with the signatures is not the digest's.
hash_ty_single == "Single"

\* EcdsaSighashType::All, hard-coded (main.rs:124).
hash_ty == "All"

\* ---------------------------------------------------------------- signing
\* Secp256k1::sign_ecdsa (main.rs:130, 134): deterministic (RFC 6979).
sign_ecdsa(m, sk) == [digest |-> m, signer |-> PointOf(sk)]

\* Secp256k1::verify_ecdsa(...).is_ok() (main.rs:132, 136).
verify_ecdsa(m, sig, point) == sig.digest = m /\ sig.signer = point

\* BTreeMap::insert (main.rs:138, 146): a later insert under an equal key
\* replaces the entry.
insert(map, key, val) ==
    [k \in DOMAIN map \cup {key} |-> IF k = key THEN val ELSE map[k]]

EmptyMap == [k \in {} |-> <<>>]

\* ----------------------------------------------------------- serialization
\* BTreeMap iteration order: entries by ascending key (PublicKey orders by
\* its point).  The pairs of a partial-signature map, in that order.
RECURSIVE sorted_entries(_)
sorted_entries(map) ==
    IF DOMAIN map = {}
    THEN <<>>
    ELSE LET least == CHOOSE k \in DOMAIN map :
                          \A o \in DOMAIN map : k.inner <= o.inner
         IN  <<[key |-> least, sig |-> map[least]]>>
             \o sorted_entries([k \in DOMAIN map \ {least} |-> map[k]])

serialize_input(inp) ==
    [witness_utxo |-> inp.witness_utxo,
     witness_script |-> inp.witness_script,
     sighash_type |-> inp.sighash_type,
     partial_sigs |-> sorted_entries(inp.partial_sigs),
     final_script_witness |-> inp.final_script_witness]

\* consensus::serialize(&psbt) then base64::encode (main.rs:154-155).
serialize(p) ==
    [base64_of |->
        [unsigned_tx |-> p.unsigned_tx,
         inputs |-> [i \in DOMAIN p.inputs |-> serialize_input(p.inputs[i])],
         outputs |-> p.outputs]]

\* ---------------------------------------------------------------- finalize
\* Satisfaction of multi(k, keys): the signatures the map holds for the
\* script's keys, in key order.
RECURSIVE available_sigs(_, _, _)
available_sigs(keys, sigs, i) ==
    IF i > Len(keys)
    THEN <<>>
    ELSE (IF keys[i] \in DOMAIN sigs
          THEN <<[key |-> keys[i], sig |-> sigs[keys[i]]]>>
          ELSE <<>>)
         \o available_sigs(keys, sigs, i + 1)

\* Mutant: any one available signature is taken to satisfy the policy.
satisfy_any(ws, sigs) ==
    LET avail == available_sigs(ws.keys, sigs, 1)
    IN  IF Len(avail) = 0
        THEN <<>>
        ELSE <<[stack |-> SubSeq(avail, 1, IF Len(avail) < ws.k
                                           THEN Len(avail) ELSE ws.k),
                witness_script |-> ws]>>

\* The witness of multi(k, keys), or <<>> when fewer than k keys have a
\* signature: the first k available signatures and the witness script.
satisfy(ws, sigs) ==
    LET avail == available_sigs(ws.keys, sigs, 1)
    IN  IF Len(avail) < ws.k
        THEN <<>>
        ELSE <<[stack |-> SubSeq(avail, 1, ws.k), witness_script |-> ws]>>

\* PsbtExt::finalize_mut (main.rs:157) on the single input: the PSBT's
\* well-formedness (input counts agree, every partial signature carries the
\* input's sighash type), the witness script hashes to the spent script, the
\* policy is satisfied from partial_sigs, and every signature put in the
\* witness verifies against the sighash recomputed from the PSBT.
\* Returns [ok, psbt]; on Err the PSBT is left as it was.
finalize(p) ==
    LET failed == [ok |-> FALSE, psbt |-> p]
    IN  IF Len(p.inputs) # Len(p.unsigned_tx.input) \/ Len(p.inputs) # 1
        THEN failed
        ELSE
        LET inp == p.inputs[1]
            digest == sighash_msg(p, 0)
        IN  IF \E pk \in DOMAIN inp.partial_sigs :
                   inp.partial_sigs[pk].hash_ty # ecdsa_hash_ty(inp)
            THEN failed
            ELSE IF digest = <<>>
            THEN failed
            ELSE IF P2wsh(inp.witness_script[1]) # inp.witness_utxo[1].script_pubkey
            THEN failed
            ELSE
            LET w == satisfy(inp.witness_script[1], inp.partial_sigs)
            IN  IF w = <<>>
                THEN failed
                ELSE IF \E j \in DOMAIN w[1].stack :
                            ~verify_ecdsa(digest[1], w[1].stack[j].sig.sig,
                                          w[1].stack[j].key.inner)
                THEN failed
                ELSE [ok |-> TRUE,
                      psbt |-> [p EXCEPT
                          !.inputs[1].final_script_witness = w,
                          !.inputs[1].partial_sigs = EmptyMap,
                          !.inputs[1].sighash_type = <<>>,
                          !.inputs[1].witness_script = <<>>]]

\* Mutant: extraction rewrites the inputs' sequence numbers.
extract_tx_resequenced(p) ==
    [p.unsigned_tx EXCEPT
        !.input = [i \in DOMAIN p.unsigned_tx.input |->
                      [p.unsigned_tx.input[i] EXCEPT
                          !.sequence = <<0, 0>>,
                          !.witness = p.inputs[i].final_script_witness]]]

\* Psbt::extract_tx (main.rs:160): the unsigned transaction with each input's
\* final witness attached.
extract_tx(p) ==
    [p.unsigned_tx EXCEPT
        !.input = [i \in DOMAIN p.unsigned_tx.input |->
                      [p.unsigned_tx.input[i] EXCEPT
                          !.witness = p.inputs[i].final_script_witness]]]

\* RawTx::raw_hex (main.rs:161).
raw_hex(t) == [hex_of |-> t]

\* ------------------------------------------------------------------ state
VARIABLES
    pc,                \* the statement of main about to run
    panic,             \* which unwrap/expect/assert/panic! ended the run
    stdout,            \* the lines printed so far
    descriptor,        \* main.rs:42    <<d>> once parsed
    hotkey_private,    \* main.rs:57    <<sk>> once parsed
    cosigner_private,  \* main.rs:65
    psbt,              \* main.rs:80    <<p>> once built
    depo_tx,           \* main.rs:90
    receiver,          \* main.rs:91
    outpoint,          \* main.rs:93
    witness_utxo,      \* main.rs:93
    amount,            \* args.amount, <<a>> once read (main.rs:103)
    msg,               \* main.rs:118   <<digest>>
    sig1,              \* main.rs:130
    sig2,              \* main.rs:134
    verified,          \* the (pk, sig) pairs that passed the asserts of 132, 136
    tx                 \* main.rs:160

parsed == <<descriptor, hotkey_private, cosigner_private, depo_tx, receiver>>
located == <<outpoint, witness_utxo>>
signing == <<msg, sig1, sig2, verified>>
vars == <<pc, panic, stdout, parsed, psbt, located, amount, signing, tx>>

Init ==
    /\ pc = "parse_descriptor"
    /\ panic = ""
    /\ stdout = <<>>
    /\ descriptor = <<>>
    /\ hotkey_private = <<>>
    /\ cosigner_private = <<>>
    /\ psbt = <<>>
    /\ depo_tx = <<>>
    /\ receiver = <<>>
    /\ outpoint = <<>>
    /\ witness_utxo = <<>>
    /\ amount = <<>>
    /\ msg = <<>>
    /\ sig1 = <<>>
    /\ sig2 = <<>>
    /\ verified = {}
    /\ tx = <<>>

\* A failed unwrap / expect / assert! / panic!: the process ends.
Abort(reason) ==
    /\ pc' = "panic"
    /\ panic' = reason

Goto(next) ==
    /\ pc' = next
    /\ panic' = panic

println(kind, data) == stdout' = Append(stdout, [kind |-> kind, data |-> data])

\* main.rs:42  Descriptor::from_str(&args.descriptor).unwrap()
ParseDescriptor ==
    /\ pc = "parse_descriptor"
    /\ \E text \in DescriptorTexts :
          IF from_str_ok(text)
          THEN /\ descriptor' = <<text>>
               /\ Goto("sanity_check")
          ELSE /\ descriptor' = descriptor
               /\ Abort("descriptor_parse")
    /\ UNCHANGED <<stdout, hotkey_private, cosigner_private, depo_tx, receiver,
                   psbt, located, amount, signing, tx>>

\* main.rs:43-55  assert!(descriptor.sanity_check().is_ok()), then the
\* descriptor's script, address and satisfaction weight are printed.
SanityCheck ==
    /\ pc = "sanity_check"
    /\ IF sanity_check_ok(descriptor[1])
       THEN /\ println("descriptor_info", script_pubkey(descriptor[1]))
            /\ Goto("parse_hotkey")
       ELSE /\ stdout' = stdout
            /\ Abort("sanity_check")
    /\ UNCHANGED <<parsed, psbt, located, amount, signing, tx>>

\* Private key texts: malformed (0) or the WIF of a key.
KeyTexts == {0} \cup PrivateKeys

\* main.rs:57-63  PrivateKey::from_str(&args.hotkey).expect(..), print its key
ParseHotkey ==
    /\ pc = "parse_hotkey"
    /\ \E text \in KeyTexts :
          IF text \in PrivateKeys
          THEN /\ hotkey_private' = <<text>>
               /\ println("hot_pubkey", public_key(text))
               /\ Goto("parse_cosigner")
          ELSE /\ hotkey_private' = hotkey_private
               /\ stdout' = stdout
               /\ Abort("hotkey_parse")
    /\ UNCHANGED <<descriptor, cosigner_private, depo_tx, receiver,
                   psbt, located, amount, signing, tx>>

\* main.rs:65-71  PrivateKey::from_str(&args.cosigner).expect(..), print its key
ParseCosigner ==
    /\ pc = "parse_cosigner"
    /\ \E text \in KeyTexts :
          IF text \in PrivateKeys
          THEN /\ cosigner_private' = <<text>>
               /\ println("cosigner_pubkey", public_key(text))
               /\ Goto("new_psbt")
          ELSE /\ cosigner_private' = cosigner_private
               /\ stdout' = stdout
               /\ Abort("cosigner_parse")
    /\ UNCHANGED <<descriptor, hotkey_private, depo_tx, receiver,
                   psbt, located, amount, signing, tx>>

\* main.rs:73-88  the empty spend transaction inside a fresh Psbt
NewPsbt ==
    /\ pc = "new_psbt"
    /\ psbt' = <<[unsigned_tx |-> [version |-> 2, lock_time |-> 0,
                                   input |-> <<>>, output |-> <<>>],
                  version |-> 0,
                  inputs |-> <<>>,
                  outputs |-> <<>>]>>
    /\ Goto("deserialize")
    /\ UNCHANGED <<stdout, parsed, located, amount, signing, tx>>

\* Raw transaction texts: malformed hex / encoding (0) or a transaction.
\* main.rs:90  deserialize(&Vec::from_hex(&args.rawtx).unwrap()).unwrap()
DeserializeDepo ==
    /\ pc = "deserialize"
    /\ \/ /\ depo_tx' = depo_tx
          /\ Abort("rawtx_decode")
       \/ \E t \in FundingTxs :
             /\ depo_tx' = <<t>>
             /\ Goto("parse_receiver")
    /\ UNCHANGED <<stdout, descriptor, hotkey_private, cosigner_private, receiver,
                   psbt, located, amount, signing, tx>>

\* main.rs:91  Address::from_str(&args.address).unwrap()
ParseReceiver ==
    /\ pc = "parse_receiver"
    /\ \E text \in AddressTexts :
          IF text.wellformed
          THEN /\ receiver' = <<[script_pubkey |-> ReceiverScript]>>
               /\ Goto("get_vout")
          ELSE /\ receiver' = receiver
               /\ Abort("address_parse")
    /\ UNCHANGED <<stdout, descriptor, hotkey_private, cosigner_private, depo_tx,
                   psbt, located, amount, signing, tx>>

\* main.rs:93  let (outpoint, witness_utxo) = get_vout(&depo_tx, spk);
\* get_vout panics at main.rs:171 when no output matches.
GetVout ==
    /\ pc = "get_vout"
    /\ LET r == get_vout(depo_tx[1], script_pubkey(descriptor[1]))
       IN  IF r.found
           THEN /\ outpoint' = r.outpoint
                /\ witness_utxo' = r.txout
                /\ Goto("push_input")
           ELSE /\ UNCHANGED located
                /\ Abort("get_vout")
    /\ UNCHANGED <<stdout, parsed, psbt, amount, signing, tx>>

\* main.rs:95-99  TxIn::default() with previous_output and sequence set,
\* pushed on the unsigned transaction.
PushInput ==
    /\ pc = "push_input"
    /\ LET txin == [previous_output |-> outpoint[1],
                    script_sig |-> <<>>,
                    sequence |-> SequenceMAX,
                    witness |-> <<>>]
       IN  psbt' = <<[psbt[1] EXCEPT
                        !.unsigned_tx.input = Append(@, txin)]>>
    /\ Goto("push_output")
    /\ UNCHANGED <<stdout, parsed, located, amount, signing, tx>>

\* main.rs:101-104  the single output: receiver's script, args.amount - 500.
\* The subtraction is unchecked by the program: on overflow the build either
\* panics or wraps.
PushOutput ==
    /\ pc = "push_output"
    /\ \E a \in Amounts : \E r \in U64SubOutcomes(a, ToU64(Fee)) :
          /\ amount' = <<a>>
          /\ IF r.panic
             THEN /\ psbt' = psbt
                  /\ Abort("subtract_overflow")
             ELSE /\ psbt' = <<[psbt[1] EXCEPT
                                  !.unsigned_tx.output = Append(@,
                                      [script_pubkey |-> receiver[1].script_pubkey,
                                       value |-> r.value])]>>
                  /\ Goto("add_psbt_input")
    /\ UNCHANGED <<stdout, parsed, located, signing, tx>>

\* main.rs:107-114  the PSBT input: witness script from the descriptor,
\* witness_utxo from get_vout; and a default PSBT output.
AddPsbtInput ==
    /\ pc = "add_psbt_input"
    /\ LET input == [witness_utxo |-> witness_utxo,
                     witness_script |-> <<witness_script_of(descriptor[1])>>,
                     sighash_type |-> <<>>,
                     partial_sigs |-> EmptyMap,
                     final_script_witness |-> <<>>]
       IN  psbt' = <<[psbt[1] EXCEPT
                        !.inputs = Append(@, input),
                        !.outputs = Append(@, [witness_script |-> <<>>])]>>
    /\ Goto("sighash")
    /\ UNCHANGED <<stdout, parsed, located, amount, signing, tx>>

\* main.rs:116-121  psbt.sighash_msg(0, &mut sighash_cache, None).unwrap()
Sighash ==
    /\ pc = "sighash"
    /\ LET d == sighash_msg(psbt[1], 0)
       IN  IF d # <<>>
           THEN /\ msg' = d
                /\ Goto("sign1")
           ELSE /\ msg' = msg
                /\ Abort("sighash")
    /\ UNCHANGED <<stdout, parsed, psbt, located, amount, sig1, sig2, verified, tx>>

\* main.rs:126, 130-132  sig1 over msg with the hot key, self-verified
Sign1 ==
    /\ pc = "sign1"
    /\ LET sk1 == hotkey_private[1]
           sig == sign_ecdsa(msg[1], sk1)
           pk1 == public_key(hotkey_private[1])
       IN  /\ sig1' = <<sig>>
           /\ IF verify_ecdsa(msg[1], sig, pk1.inner)
              THEN /\ verified' = verified \cup {[key |-> pk1, sig |-> sig]}
                   /\ Goto("sign2")
              ELSE /\ verified' = verified
                   /\ Abort("verify_sig1")
    /\ UNCHANGED <<stdout, parsed, psbt, located, amount, msg, sig2, tx>>

\* Mutant: the cosigner's signature is not self-verified.
Sign2_unverified ==
    /\ pc = "sign2"
    /\ sig2' = <<sign_ecdsa(msg[1], cosigner_private[1])>>
    /\ verified' = verified
    /\ Goto("insert1")
    /\ UNCHANGED <<stdout, parsed, psbt, located, amount, msg, sig1, tx>>

\* main.rs:127, 134-136  sig2 over msg with the cosigner key, self-verified
Sign2 ==
    /\ pc = "sign2"
    /\ LET sk2 == cosigner_private[1]
           sig == sign_ecdsa(msg[1], sk2)
           pk2 == public_key(cosigner_private[1])
       IN  /\ sig2' = <<sig>>
           /\ IF verify_ecdsa(msg[1], sig, pk2.inner)
              THEN /\ verified' = verified \cup {[key |-> pk2, sig |-> sig]}
                   /\ Goto("insert1")
              ELSE /\ verified' = verified
                   /\ Abort("verify_sig2")
    /\ UNCHANGED <<stdout, parsed, psbt, located, amount, msg, sig1, tx>>

\* Mutant: the hot key's signature is filed under the cosigner's key.
Insert1_wrong_key ==
    /\ pc = "insert1"
    /\ psbt' = <<[psbt[1] EXCEPT
                    !.inputs[1].partial_sigs =
                        insert(@, public_key(cosigner_private[1]),
                               [sig |-> sig1[1], hash_ty |-> hash_ty])]>>
    /\ Goto("insert2")
    /\ UNCHANGED <<stdout, parsed, located, amount, signing, tx>>

\* main.rs:138-144  partial_sigs.insert(pk1, EcdsaSig {sig1, hash_ty})
Insert1 ==
    /\ pc = "insert1"
    /\ psbt' = <<[psbt[1] EXCEPT
                    !.inputs[1].partial_sigs =
                        insert(@, public_key(hotkey_private[1]),
                               [sig |-> sig1[1], hash_ty |-> hash_ty])]>>
    /\ Goto("insert2")
    /\ UNCHANGED <<stdout, parsed, located, amount, signing, tx>>

\* Mutant: the cosigner's signature is never inserted.
Insert2_skipped ==
    /\ pc = "insert2"
    /\ Goto("serialize")
    /\ UNCHANGED <<stdout, parsed, psbt, located, amount, signing, tx>>

\* main.rs:146-152  partial_sigs.insert(pk2, EcdsaSig {sig2, hash_ty})
Insert2 ==
    /\ pc = "insert2"
    /\ psbt' = <<[psbt[1] EXCEPT
                    !.inputs[1].partial_sigs =
                        insert(@, public_key(cosigner_private[1]),
                               [sig |-> sig2[1], hash_ty |-> hash_ty])]>>
    /\ Goto("serialize")
    /\ UNCHANGED <<stdout, parsed, located, amount, signing, tx>>

\* main.rs:154-155  the signature-bearing PSBT is printed, base64
Serialize ==
    /\ pc = "serialize"
    /\ println("psbt", serialize(psbt[1]))
    /\ Goto("finalize")
    /\ UNCHANGED <<parsed, psbt, located, amount, signing, tx>>

\* main.rs:157  psbt.finalize_mut(&secp256k1).unwrap()
Finalize ==
    /\ pc = "finalize"
    /\ LET r == finalize(psbt[1])
       IN  IF r.ok
           THEN /\ psbt' = <<r.psbt>>
                /\ Goto("extract")
           ELSE /\ psbt' = psbt
                /\ Abort("finalize")
    /\ UNCHANGED <<stdout, parsed, located, amount, signing, tx>>

\* main.rs:160-161  the final transaction is extracted and printed, hex
Extract ==
    /\ pc = "extract"
    /\ tx' = <<extract_tx(psbt[1])>>
    /\ println("raw", raw_hex(extract_tx(psbt[1])))
    /\ Goto("done")
    /\ UNCHANGED <<parsed, psbt, located, amount, signing>>

Next ==
    \/ ParseDescriptor
    \/ SanityCheck
    \/ ParseHotkey
    \/ ParseCosigner
    \/ NewPsbt
    \/ DeserializeDepo
    \/ ParseReceiver
    \/ GetVout
    \/ PushInput
    \/ PushOutput
    \/ AddPsbtInput
    \/ Sighash
    \/ Sign1
    \/ Sign2
    \/ Insert1
    \/ Insert2
    \/ Serialize
    \/ Finalize
    \/ Extract

Spec == Init /\ [][Next]_vars

\* ============================================================ properties
Printed(kind) == \E i \in DOMAIN stdout : stdout[i].kind = kind

\* The partial-signature map of the PSBT's input, empty before the input exists.
PartialSigs ==
    IF psbt = <<>> \/ psbt[1].inputs = <<>>
    THEN EmptyMap
    ELSE psbt[1].inputs[1].partial_sigs

UnsignedTx == psbt[1].unsigned_tx

Matches(i) ==
    depo_tx[1].output[i].script_pubkey = script_pubkey(descriptor[1])

\* C1: a spend amount <= the fee (500) never yields an output: the run has
\* failed and the unsigned transaction carries no output.
C1_InsufficientAmountRejected ==
    (amount # <<>> /\ U64Val(amount[1]) <= Fee)
        => /\ pc = "panic"
           /\ UnsignedTx.output = <<>>

\* C2: when some output's script equals the target script, get_vout returns
\* the lowest matching index i, the outpoint (txid of the funding
\* transaction, i) and exactly output i; it does not panic.
C2_FirstMatchLocated ==
    /\ outpoint # <<>> =>
          LET outs == depo_tx[1].output
              i == outpoint[1].vout + 1
          IN  /\ i \in 1..Len(outs)
              /\ Matches(i)
              /\ \A j \in 1..(i - 1) : ~Matches(j)
              /\ outpoint[1].txid = txid(depo_tx[1])
              /\ witness_utxo = <<outs[i]>>
    /\ (receiver # <<>> /\ pc # "get_vout"
            /\ \E i \in DOMAIN depo_tx[1].output : Matches(i))
          => outpoint # <<>>

C2_Witness ==
    /\ outpoint # <<>>
    /\ Len(depo_tx[1].output) >= 2
    /\ Matches(1) /\ Matches(2)
    /\ depo_tx[1].output[1].value # depo_tx[1].output[2].value

\* C3: when no output of the funding transaction carries the derived script
\* (also when it has no outputs), get_vout ends the run: no input is added,
\* no sighash computed, no signature made, nothing emitted.
C3_NotFoundIsFatal ==
    (receiver # <<>> /\ pc # "get_vout"
        /\ \A i \in DOMAIN depo_tx[1].output : ~Matches(i))
        => /\ pc = "panic" /\ panic = "get_vout"
           /\ outpoint = <<>>
           /\ UnsignedTx.input = <<>>
           /\ msg = <<>> /\ sig1 = <<>> /\ sig2 = <<>>
           /\ PartialSigs = EmptyMap
           /\ tx = <<>>
           /\ ~Printed("psbt") /\ ~Printed("raw")

C3_Witness ==
    /\ panic = "get_vout"
    /\ Len(depo_tx[1].output) >= 1

\* C4: the unsigned transaction the sighash is computed over has exactly one
\* input (the located outpoint, maximal sequence) and exactly one output (the
\* receiver's script, value = amount - 500), and lock time zero.
C4_OneInputOneOutput ==
    msg # <<>> =>
        LET t == msg[1].tx
        IN  /\ Len(t.input) = 1
            /\ t.input[1].previous_output = outpoint[1]
            /\ t.input[1].sequence = SequenceMAX
            /\ Len(t.output) = 1
            /\ t.output[1].script_pubkey = receiver[1].script_pubkey
            /\ U64Fits(t.output[1].value)
            /\ U64Val(t.output[1].value) = U64Val(amount[1]) - Fee
            /\ t.lock_time = 0

SignedPolicyKeys ==
    {public_key(hotkey_private[1]), public_key(cosigner_private[1])}
        \cap Range(descriptor[1].keys)

\* C6: finalization succeeds exactly when the supplied keys sign for at least
\* k of the policy's keys; otherwise it fails and attaches no witness.
C6_FinalizeIffEnoughSignatures ==
    /\ pc \in {"extract", "done"}
          => /\ Cardinality(SignedPolicyKeys) >= descriptor[1].k
             /\ psbt[1].inputs[1].final_script_witness # <<>>
    /\ panic = "finalize"
          => /\ Cardinality(SignedPolicyKeys) < descriptor[1].k
             /\ psbt[1].inputs[1].final_script_witness = <<>>
             /\ tx = <<>>

C6_Witness ==
    /\ panic = "finalize"
    /\ descriptor[1].k = 2
    /\ hotkey_private = cosigner_private
    /\ Cardinality(SignedPolicyKeys) = 1

\* The transaction with every input's witness removed.
StripWitness(t) ==
    [t EXCEPT !.input = [i \in DOMAIN t.input |->
                            [t.input[i] EXCEPT !.witness = <<>>]]]

\* C7: once the digest exists, the unsigned transaction stays the one the
\* digest was computed over, and the extracted final transaction differs
\* from it only by the attached witness.
C7_UnsignedTxFrozenAfterSighash ==
    /\ msg # <<>> => UnsignedTx = msg[1].tx
    /\ tx # <<>> =>
          /\ StripWitness(tx[1]) = msg[1].tx
          /\ \A i \in DOMAIN tx[1].input : tx[1].input[i].witness # <<>>

C7_Witness ==
    /\ pc = "done"
    /\ tx # <<>>

\* C8: a run that fails has emitted neither the final transaction nor the
\* signature-bearing intermediate transaction.
C8_NoOutputOnFailure ==
    pc = "panic" => ~Printed("raw") /\ ~Printed("psbt")

\* The map as it would stand had the cosigner's entry been inserted first.
ReversedSigs ==
    insert(insert(EmptyMap, public_key(cosigner_private[1]),
                  [sig |-> sig2[1], hash_ty |-> hash_ty]),
           public_key(hotkey_private[1]),
           [sig |-> sig1[1], hash_ty |-> hash_ty])

C10_OneDigestMatchingFlag ==
    /\ msg # <<>> =>
          /\ msg[1].index = 0
          /\ P2wsh(msg[1].script_code) = witness_utxo[1].script_pubkey
          /\ msg[1].value = witness_utxo[1].value
          /\ msg[1].sighash_type = "All"
    /\ sig1 # <<>> => sig1[1].digest = msg[1]
    /\ sig2 # <<>> => sig2[1].digest = msg[1]
    /\ \A pk \in DOMAIN PartialSigs :
          /\ PartialSigs[pk].sig.digest = msg[1]
          /\ PartialSigs[pk].hash_ty = PartialSigs[pk].sig.digest.sighash_type

C10_Witness ==
    /\ pc = "finalize"
    /\ sig1 # sig2
    /\ \A pk \in {public_key(hotkey_private[1]), public_key(cosigner_private[1])} :
          pk \in DOMAIN PartialSigs /\ PartialSigs[pk].hash_ty = "All"

====
